---- MODULE Spec2Model ----
(***************************************************************************)
(* Model of the research workflow of scientific_research_agent:            *)
(*   state.py   AgentState and the structured outputs, with validators     *)
(*   graph.py   the five nodes, the edges and the branches of the graph    *)
(*   astream_events_handler.py  the loop that drives one run               *)
(*   app.py     the chat session that starts runs and keeps the history    *)
(* The graph is compiled over AgentState, a pydantic model: every node and *)
(* every branch is handed the channels coerced to AgentState, so the       *)
(* validators run at each of these boundaries, and a channel without a     *)
(* reducer keeps the last value written to it.                             *)
(*                                                                         *)
(* Two families of initial states.  InitApp is the chat session as the app *)
(* builds it; its runs enter the graph at decision_making.  InitNode takes *)
(* a run at the entry of one of the later nodes, on any state AgentState   *)
(* accepts there, so that each node and each branch is exercised on all    *)
(* of its inputs whether or not the nodes before it let a run get there.   *)
(*                                                                         *)
(* agent_tools.py is modelled by ToolSpec, which follows one call of a     *)
(* tool step by step, outside a run.  DirectSpec calls the routers and the *)
(* methods of AgentState on their own, on every state AgentState accepts.  *)
(***************************************************************************)
EXTENDS Integers, Sequences, FiniteSets, TLC

VARIABLES
    history,        \* st.session_state.messages
    current_cycle,  \* st.session_state.research_data["current_cycle"]
    pc,             \* "idle", the node about to run, or "returned"
    state,          \* the channels of the graph, read as an AgentState
    steps,          \* supersteps taken by the current run
    status,         \* how execute_research_flow returned
    final_text,     \* number of streamed chunks with text
    path,           \* nodes whose body ran in the current run, in order
    executed,       \* ids of the tool calls looked up by _tools_node in the run
    runs,           \* runs started in the session
    task_pc,        \* node the graph task is at once the handler has raised
    late,           \* nodes whose body ran after the handler raised
    node_out,       \* what the body of the last node returned
    stop,           \* the stop button: its phase and the stages run when clicked
    _cancelled,     \* supervisor._cancelled of the run's ResearchSupervisor
    tool,           \* a call of one of the tools of agent_tools.py, step by step
    direct          \* a router or a method of AgentState called on a state

vars == <<history, current_cycle, pc, state, steps, status, final_text,
          path, executed, runs, task_pc, late, node_out, stop, _cancelled, tool, direct>>

(***************************************************************************)
(* Bounds                                                                  *)
(***************************************************************************)
MaxRuns == 2
MaxCalls == 2

(***************************************************************************)
(* Program constants                                                       *)
(***************************************************************************)
max_feedback_attempts == 2
max_cycles == 10
recursion_limit == 20
answer_min_length == 10
answer_max_length == 2000
num_feedback_le == 3
feedback_min_length == 20
feedback_max_length == 1000
research_cycles_le == 5

None == "None"
END == "__end__"
Nodes == {"decision_making", "planning", "tools", "agent", "judge"}

(***************************************************************************)
(* Messages                                                                *)
(***************************************************************************)
HumanMessage(c) ==
    [role |-> "human", content |-> c, tool_calls |-> <<>>, tool_call_id |-> None]

AIMessage(c) ==
    [role |-> "ai", content |-> c, tool_calls |-> <<>>, tool_call_id |-> None]

AIToolCalls(calls) ==
    [role |-> "ai", content |-> "", tool_calls |-> calls, tool_call_id |-> None]

ToolMessage(c, id) ==
    [role |-> "tool", content |-> c, tool_calls |-> <<>>, tool_call_id |-> id]

Last(s) == s[Len(s)]

\* Texts the model can return as a direct answer, with their lengths.
AnswerTexts == {"Paris", "Paris is the capital of France.", "<text of 2001 characters>"}

TextLen(t) ==
    CASE t = "Paris" -> 5
      [] t = "Paris is the capital of France." -> 31
      [] t = "<text of 2001 characters>" -> 2001
      [] t = "" -> 0
      [] OTHER -> 40

(***************************************************************************)
(* state.py: AgentState                                                    *)
(***************************************************************************)
\* What AgentState(messages=...) holds when only messages is given.
DefaultState(msgs) ==
    [requires_research |-> FALSE,
     num_feedback_requests |-> 0,
     is_good_answer |-> FALSE,
     messages |-> msgs,
     research_cycles |-> 0]

\* Field constraints: min_length=1, ge=0/le=3, ge=0/le=5.
FieldConstraints(s) ==
    /\ Len(s.messages) >= 1
    /\ s.num_feedback_requests >= 0 /\ s.num_feedback_requests <= num_feedback_le
    /\ s.research_cycles >= 0 /\ s.research_cycles <= research_cycles_le

\* TRUE when the field validator accepts the list.
validate_messages(messages) ==
    /\ Len(messages) >= 1
    /\ Last(messages).role \in {"ai", "human"}

\* TRUE when the model validator accepts the state.
validate_state_consistency(s) ==
    /\ ~(s.is_good_answer /\ s.requires_research)
    /\ ~(s.num_feedback_requests > 0 /\ ~s.requires_research)

\* TRUE when constructing AgentState from the channels raises nothing.
AgentStateValid(s) ==
    /\ FieldConstraints(s)
    /\ validate_messages(s.messages)
    /\ validate_state_consistency(s)

\* TRUE when the model validator of DecisionMakingOutput accepts the output.
validate_answer_presence(raw) ==
    ~(~raw.requires_research /\ (raw.answer = None \/ raw.answer = ""))

\* TRUE when DecisionMakingOutput accepts the raw model output: answer is
\* None or a string of min_length=10, max_length=2000, and the model
\* validator passes.
DecisionMakingOutputValid(raw) ==
    /\ raw.answer # None =>
         /\ TextLen(raw.answer) >= answer_min_length
         /\ TextLen(raw.answer) <= answer_max_length
    /\ validate_answer_presence(raw)

\* TRUE when the model validator of JudgeOutput accepts the output.
validate_feedback_presence(raw) ==
    ~(~raw.is_good_answer /\ (raw.feedback = None \/ raw.feedback = ""))

\* TRUE when JudgeOutput accepts the raw model output: feedback is None or
\* a string of min_length=20, max_length=1000, and the model validator
\* passes.
JudgeOutputValid(raw) ==
    /\ raw.feedback # None =>
         /\ TextLen(raw.feedback) >= feedback_min_length
         /\ TextLen(raw.feedback) <= feedback_max_length
    /\ validate_feedback_presence(raw)

(***************************************************************************)
(* The graph engine: channels and state subscripting                       *)
(***************************************************************************)
\* messages and the other fields carry no reducer: a key a node returns
\* replaces the channel's value, a key it omits leaves the channel alone.
ApplyUpdate(s, u) ==
    [k \in DOMAIN s |-> IF k \in DOMAIN u THEN u[k] ELSE s[k]]

Return(u) == [raised |-> FALSE, update |-> u]
Raise == [raised |-> TRUE, update |-> <<>>]

(***************************************************************************)
(* graph.py: the nodes.  llm and outcomes are what the model and the tools *)
(* answer; each node yields Return(update) or Raise.                       *)
(***************************************************************************)
\* except ValidationError only: any other failure of the call propagates.
_decision_making_node(s, llm) ==
    IF llm.kind = "exception" THEN Raise
    ELSE IF ~DecisionMakingOutputValid(llm.raw)
    THEN Return([requires_research |-> TRUE, messages |-> <<>>])
    ELSE Return([requires_research |-> llm.raw.requires_research,
                 messages |-> IF llm.raw.answer # None /\ llm.raw.answer # ""
                              THEN <<AIMessage(llm.raw.answer)>>
                              ELSE <<>>])

\* _planning_node answering a failed call with an empty list, as the
\* fallback of _decision_making_node does.
_planning_node_EmptyOnError(s, llm) ==
    IF llm.kind = "exception"
    THEN Return([messages |-> <<>>])
    ELSE Return([messages |-> <<llm.message>>])

\* _planning_node starting each plan from reset_research_state().
_planning_node_ResetsState(s, llm) ==
    LET msg == IF llm.kind = "exception"
               THEN AIMessage("Error en planificacion") ELSE llm.message
    IN Return([messages |-> <<msg>>,
               requires_research |-> FALSE,
               num_feedback_requests |-> 0,
               research_cycles |-> 0])

\* _planning_node marking the research as no longer required.
_planning_node_ClearsFlag(s, llm) ==
    LET msg == IF llm.kind = "exception"
               THEN AIMessage("Error en planificacion") ELSE llm.message
    IN Return([messages |-> <<msg>>, requires_research |-> FALSE])

_planning_node(s, llm) ==
    IF llm.kind = "exception"
    THEN Return([messages |-> <<AIMessage("Error en planificacion")>>])
    ELSE Return([messages |-> <<llm.message>>])

_agent_node(s, llm) ==
    IF llm.kind = "exception"
    THEN Return([messages |-> <<AIMessage("Ocurrio un error interno")>>])
    ELSE Return([messages |-> <<llm.message>>])

Registry == {"search-papers", "download-paper", "ask-human-feedback"}

\* ToolOutput keyed by the name of the tool instead of the id of the call.
ToolOutput_KeyedByName(call, outcome) ==
    IF call.name \notin Registry \/ outcome = "raises"
    THEN ToolMessage("error", call.name)
    ELSE ToolMessage("result", call.name)

\* The tool message _tools_node builds for one call.
ToolOutput(call, outcome) ==
    IF call.name \notin Registry \/ outcome = "raises"
    THEN ToolMessage("error", call.id)
    ELSE ToolMessage("result", call.id)

\* _tools_node counting its batch as a feedback request.
_tools_node_CountsFeedback(s, outcomes) ==
    LET last_msg == Last(s.messages) IN
    IF last_msg.role # "ai" THEN Raise
    ELSE IF last_msg.tool_calls = <<>> THEN Return([messages |-> <<>>])
    ELSE Return([messages |->
                   [i \in 1..Len(last_msg.tool_calls) |->
                      ToolOutput(last_msg.tool_calls[i], outcomes[i])],
                 num_feedback_requests |-> s.num_feedback_requests + 1])

_tools_node(s, outcomes) ==
    LET last_msg == Last(s.messages) IN
    IF last_msg.role # "ai" THEN Raise
    ELSE IF last_msg.tool_calls = <<>> THEN Return([messages |-> <<>>])
    ELSE Return([messages |->
                   [i \in 1..Len(last_msg.tool_calls) |->
                      ToolOutput(last_msg.tool_calls[i], outcomes[i])]])

\* Past the ceiling check the node reads AgentState.JudgeOutput, an
\* attribute AgentState does not have; except ValidationError lets the
\* AttributeError through.  The attribute is read before the model is
\* called, so what the model has to say (llm) plays no part.
_judge_node(s, llm) ==
    IF s.num_feedback_requests >= max_feedback_attempts
    THEN Return([is_good_answer |-> TRUE])
    ELSE Raise

\* StaticEdges with the edge of planning leading to judge.
StaticEdges_PlanningToJudge == [planning |-> "judge", tools |-> "agent"]

\* add_edge: the nodes with one fixed successor.
StaticEdges == [planning |-> "agent", tools |-> "agent"]

(***************************************************************************)
(* graph.py: the branches.  The engine hands a branch the state coerced to *)
(* AgentState, and the lambdas subscript it.                               *)
(***************************************************************************)
\* state["key"]: AgentState is a BaseModel and defines no __getitem__, so
\* the subscript raises TypeError whatever the key.
Subscript(s, key) == [raised |-> TRUE, value |-> s[key]]

route_after_decision(s) ==
    LET v == Subscript(s, "requires_research") IN
    IF v.raised THEN "raise"
    ELSE IF v.value THEN "planning" ELSE END

route_after_agent(s) ==
    LET v == Subscript(s, "messages") IN
    IF v.raised THEN "raise"
    ELSE IF Last(v.value).tool_calls # <<>> THEN "tools" ELSE "judge"

route_after_judge(s) ==
    LET v == Subscript(s, "is_good_answer") IN
    IF v.raised THEN "raise"
    ELSE IF ~v.value THEN "planning" ELSE END

\* A branch reads the state with the node's own writes applied, coerces it
\* to AgentState and calls the lambda, whose result is routed.
Branch(s, routed) ==
    IF ~AgentStateValid(s) THEN "raise" ELSE routed

(***************************************************************************)
(* Inputs: what the model and the tools may answer                         *)
(***************************************************************************)
CallNames == Registry \cup {"no-such-tool"}
CallIds == <<"call_1", "call_2", "call_3">>

\* Batches of 1..MaxCalls calls; the i-th call of a batch has the i-th id.
CallBatches ==
    UNION {[1..n -> CallNames] : n \in 1..MaxCalls}

MakeCalls(names) ==
    [i \in 1..Len(names) |-> [name |-> names[i], id |-> CallIds[i]]]

DecisionLLM ==
    {[kind |-> "output", raw |-> [requires_research |-> r, answer |-> a]] :
        r \in BOOLEAN, a \in AnswerTexts \cup {None, ""}}
    \cup {[kind |-> "exception", error |-> e] :
            e \in {"APIConnectionError", "RuntimeError"}}

PlanningLLM ==
    {[kind |-> "message", message |-> AIMessage("plan")], [kind |-> "exception"]}

AgentLLM ==
    {[kind |-> "message", message |-> AIMessage("draft")]}
    \cup {[kind |-> "message", message |-> AIToolCalls(MakeCalls(b))] : b \in CallBatches}
    \cup {[kind |-> "exception"]}

ToolOutcomes(n) == [1..n -> {"returns", "raises"}]

\* The judgments the model can have ready for _judge_node.
JudgeLLM ==
    {[kind |-> "output", raw |-> [is_good_answer |-> g, feedback |-> f]] :
        g \in BOOLEAN, f \in {None, "", "Cite sources of the last five years."}}
    \cup {[kind |-> "exception"]}

(***************************************************************************)
(* astream_events_handler.py and app.py: how a run ends                    *)
(***************************************************************************)
\* What execute_research_flow returns for each way of ending.
Response(st) ==
    CASE st = "cancelled" -> "Operacion cancelada"
      [] st = "ceiling" -> "Limite maximo de iteraciones alcanzado"
      [] st = "error" -> "Error en el proceso"
      [] OTHER -> "final_text"

\* main(): a non-empty response is appended to the session as an AIMessage.
EndRun(st, text) ==
    /\ pc' = "returned"
    /\ status' = st
    /\ final_text' = text
    /\ history' = IF st = "completed" /\ text = 0
                  THEN history
                  ELSE Append(history, AIMessage(Response(st)))

\* node_out before any node ran; given is what the model or the tools answered.
NoGiven == [kind |-> "none"]

NoOutput == [node |-> "none", raised |-> FALSE, update |-> <<>>, given |-> NoGiven]

NodeOutput(n, r, g) ==
    [node |-> n, raised |-> r.raised, update |-> r.update, given |-> g]

\* The stop button has not been clicked during the run.
NoStop == [phase |-> "none", at |-> 0]

\* A node can start: the handler has not seen its flag set on the last
\* event, the step limit is not reached and the channels coerce to an
\* AgentState.
Enterable(n) ==
    /\ pc = n
    /\ ~_cancelled
    /\ steps < recursion_limit
    /\ AgentStateValid(state)

\* NodeEntryFails with the failure swallowed: nothing is raised to the
\* handler and the stream never ends.
NodeEntryFails_Swallowed ==
    /\ pc \in Nodes
    /\ ~Enterable(pc)
    /\ UNCHANGED vars

\* The next node does not start.  The handler raises CancelledError when it
\* finds its flag set; GraphRecursionError is a RuntimeError, which the
\* handler reports as the cycle limit; the validation error of the coercion
\* is reported as an error.
NodeEntryFails ==
    /\ pc \in Nodes
    /\ ~Enterable(pc)
    /\ EndRun(IF _cancelled THEN "cancelled"
              ELSE IF steps >= recursion_limit THEN "ceiling" ELSE "error",
              final_text)
    /\ UNCHANGED <<current_cycle, state, steps, path, executed, runs, task_pc, late,
                   node_out, stop, _cancelled, tool, direct>>

\* main(): the user sends a prompt and a run starts on the session messages.
UserPrompt ==
    /\ pc \in {"idle", "returned"}
    /\ task_pc = "none"
    /\ runs < MaxRuns
    /\ history' = Append(history, HumanMessage("prompt"))
    /\ state' = DefaultState(history')
    /\ pc' = "decision_making"
    /\ steps' = 0
    /\ status' = "running"
    /\ final_text' = 0
    /\ path' = <<>>
    /\ executed' = <<>>
    /\ late' = <<>>
    /\ runs' = runs + 1
    /\ node_out' = NoOutput
    /\ stop' = NoStop
    /\ _cancelled' = FALSE
    /\ UNCHANGED <<current_cycle, task_pc, tool, direct>>

(***************************************************************************)
(* One superstep per node: the body, its writes, its branch                *)
(***************************************************************************)
\* The except clause of the handler an exception raised in a step ends in.
\* A failed model call of decision_making reaches the handler as it is,
\* and except RuntimeError comes before except Exception; what the other
\* nodes and the branches raise (AttributeError, TypeError, ValidationError)
\* is no RuntimeError.
ExceptStatus(n, r, g) ==
    IF n = "decision_making" /\ r.raised /\ g.error = "RuntimeError"
    THEN "ceiling"
    ELSE "error"

\* The node or its branch raised: the writes of the step are dropped.
StepRaises(n, r, g) ==
    /\ EndRun(ExceptStatus(n, r, g), final_text)
    /\ path' = Append(path, n)
    /\ node_out' = NodeOutput(n, r, g)
    /\ UNCHANGED <<current_cycle, state, steps, runs, task_pc, late,
                   stop, _cancelled, tool, direct>>

\* The step succeeded and leads to nxt (a node or END).
StepTo(n, r, g, s2, nxt, text) ==
    /\ state' = s2
    /\ node_out' = NodeOutput(n, r, g)
    /\ steps' = steps + 1
    /\ path' = Append(path, n)
    /\ IF nxt = END
       THEN EndRun("completed", text)
       ELSE /\ pc' = nxt
            /\ final_text' = text
            /\ UNCHANGED <<history, status>>
    /\ UNCHANGED <<current_cycle, runs, task_pc, late, stop, _cancelled, tool, direct>>

DecisionNode ==
    /\ Enterable("decision_making")
    /\ \E llm \in DecisionLLM :
         LET r == _decision_making_node(state, llm)
             s2 == ApplyUpdate(state, r.update)
             nxt == Branch(s2, route_after_decision(s2))
         IN IF r.raised \/ nxt = "raise"
            THEN StepRaises("decision_making", r, llm)
            ELSE StepTo("decision_making", r, llm, s2, nxt, final_text)
    /\ UNCHANGED executed

\* NextCycle counting the end event of planning as well as its start event.
NextCycle_CountsStartAndEnd(cycle, name) ==
    IF name = "planning" THEN cycle + 2 ELSE cycle

\* The handler's count of on_chain_start events: only those of planning
\* add to current_cycle.
NextCycle(cycle, name) == IF name = "planning" THEN cycle + 1 ELSE cycle

\* The handler counts the start event of planning before the body runs.
PlanningNode ==
    /\ Enterable("planning")
    /\ current_cycle' = NextCycle(current_cycle, "planning")
    /\ IF current_cycle' > max_cycles
       THEN /\ EndRun("ceiling", final_text)
            /\ task_pc' = "planning"
            /\ UNCHANGED <<state, steps, path, runs, late, node_out>>
       ELSE \E llm \in PlanningLLM :
              LET r == _planning_node(state, llm)
                  s2 == ApplyUpdate(state, r.update)
                  text == IF llm.kind = "message" THEN final_text + 1 ELSE final_text
              IN /\ state' = s2
                 /\ steps' = steps + 1
                 /\ path' = Append(path, "planning")
                 /\ pc' = StaticEdges["planning"]
                 /\ final_text' = text
                 /\ node_out' = NodeOutput("planning", r, llm)
                 /\ UNCHANGED <<history, status, runs, task_pc, late>>
    /\ UNCHANGED <<executed, stop, _cancelled, tool, direct>>

AgentNode ==
    /\ Enterable("agent")
    /\ \E llm \in AgentLLM :
         LET r == _agent_node(state, llm)
             s2 == ApplyUpdate(state, r.update)
             nxt == Branch(s2, route_after_agent(s2))
             text == IF llm.kind = "message" /\ llm.message.content # ""
                     THEN final_text + 1 ELSE final_text
         IN IF r.raised \/ nxt = "raise"
            THEN StepRaises("agent", r, llm)
            ELSE StepTo("agent", r, llm, s2, nxt, text)
    /\ UNCHANGED executed

ToolsNode ==
    /\ Enterable("tools")
    /\ LET calls == IF Last(state.messages).role = "ai"
                    THEN Last(state.messages).tool_calls ELSE <<>>
       IN \E outcomes \in ToolOutcomes(Len(calls)) :
            LET r == _tools_node(state, outcomes)
                s2 == ApplyUpdate(state, r.update)
            IN IF r.raised
               THEN /\ StepRaises("tools", r, [kind |-> "tools", outcomes |-> outcomes])
                    /\ UNCHANGED executed
               ELSE /\ StepTo("tools", r, [kind |-> "tools", outcomes |-> outcomes], s2,
                           StaticEdges["tools"], final_text)
                    /\ executed' = executed \o [i \in 1..Len(calls) |-> calls[i].id]

\* At the feedback ceiling the model is not consulted.
JudgeNode ==
    /\ Enterable("judge")
    /\ \E llm \in JudgeLLM :
         LET r == _judge_node(state, llm)
             g == IF state.num_feedback_requests >= max_feedback_attempts
                  THEN NoGiven ELSE llm
             s2 == ApplyUpdate(state, r.update)
             nxt == Branch(s2, route_after_judge(s2))
         IN IF r.raised \/ nxt = "raise"
            THEN StepRaises("judge", r, g)
            ELSE StepTo("judge", r, g, s2, nxt, final_text)
    /\ UNCHANGED executed

(***************************************************************************)
(* The graph task after the handler has raised.  The events are produced   *)
(* by a task of their own; the handler raises out of the loop without      *)
(* closing the stream and then sleeps in its finally block, so the task    *)
(* goes on until asyncio.run tears the loop down.                          *)
(***************************************************************************)
\* The body of the node at task_pc runs; planning and tools lead to their
\* fixed successor, the branch of any other node raises and ends the task.
LateStep ==
    /\ task_pc \in Nodes
    /\ late' = Append(late, task_pc)
    /\ task_pc' = IF task_pc \in DOMAIN StaticEdges THEN StaticEdges[task_pc] ELSE "none"
    /\ UNCHANGED <<history, current_cycle, pc, state, steps, status, final_text,
                   path, executed, runs, node_out, stop, _cancelled, tool, direct>>

\* asyncio.run returns: the task is cancelled.  The body of planning was
\* started with the event the handler raised on and is not interrupted.
Cleanup ==
    /\ task_pc \in Nodes
    /\ ~(task_pc = "planning" /\ late = <<>>)
    /\ task_pc' = "none"
    /\ UNCHANGED <<history, current_cycle, pc, state, steps, status, final_text,
                   path, executed, runs, late, node_out, stop, _cancelled, tool, direct>>

(***************************************************************************)
(* app.py: the stop button.  The script of a session runs in one thread:   *)
(* a click while the run is in progress is queued, and the script is       *)
(* stopped at its next call into the UI and run again from the top, where  *)
(* the button reads as pressed.                                            *)
(***************************************************************************)
\* The keys app.py, astream_events_handler.py and agent_tools.py store in
\* st.session_state.  The supervisor of a run is a local of
\* execute_research_flow and is stored nowhere.
SessionKeys ==
    {"messages", "processing", "requires_research", "num_feedback_requests",
     "is_good_answer", "research_cycles", "created_at", "last_updated",
     "api_keys_set", "expander_open", "tool_executions", "research_data",
     "progress_bar", "current_progress", "human_feedback"}

\* ResearchSupervisor.cancel_research()
cancel_research == _cancelled' = TRUE

\* The user clicks the stop button while a run is in progress.
StopButton ==
    /\ pc \in Nodes
    /\ stop.phase = "none"
    /\ stop' = [phase |-> "clicked", at |-> Len(path)]
    /\ UNCHANGED <<history, current_cycle, pc, state, steps, status, final_text,
                   path, executed, runs, task_pc, late, node_out, _cancelled, tool, direct>>

\* The script is run again and reaches the button: cancel_research is
\* called on the supervisor kept in the session, if there is one.  A run
\* still in progress went down with the script that was stopped:
\* execute_research_flow returns nothing and main() appends nothing.
ScriptRerun ==
    /\ stop.phase = "clicked"
    /\ stop' = [stop EXCEPT !.phase = "handled"]
    /\ IF "research_supervisor" \in SessionKeys
       THEN cancel_research
       ELSE UNCHANGED _cancelled
    /\ IF pc \in Nodes
       THEN pc' = "returned" /\ status' = "rerun"
       ELSE UNCHANGED <<pc, status>>
    /\ UNCHANGED <<history, current_cycle, state, steps, final_text, path,
                   executed, runs, task_pc, late, node_out, tool, direct>>

(***************************************************************************)
(* Initial states                                                          *)
(***************************************************************************)
\* No tool call is being followed.
NoTool == [name |-> "none"]

\* No router or method has been called on its own.
NoDirect == [fn |-> "none"]

Greeting == AIMessage("greeting")
Prompt == HumanMessage("prompt")

\* initialize_chat(): the session as the app builds it.
InitApp ==
    /\ history = <<Greeting>>
    /\ current_cycle = 0
    /\ pc = "idle"
    /\ state = DefaultState(history)
    /\ steps = 0
    /\ status = "none"
    /\ final_text = 0
    /\ path = <<>>
    /\ executed = <<>>
    /\ runs = 0
    /\ task_pc = "none"
    /\ late = <<>>
    /\ node_out = NoOutput
    /\ stop = NoStop
    /\ _cancelled = FALSE
    /\ tool = NoTool
    /\ direct = NoDirect

\* The message lists a node is entered with, by the edge that leads to it.
EntryLogs(n) ==
    CASE n = "planning" -> {<<Prompt>>, <<Prompt, AIMessage("feedback")>>}
      [] n = "agent" -> {<<AIMessage("plan")>>, <<Prompt, AIMessage("plan")>>}
      [] n = "tools" -> {<<AIToolCalls(MakeCalls(b))>> : b \in CallBatches}
                        \cup {<<Prompt, AIToolCalls(MakeCalls(b))>> : b \in CallBatches}
      [] n = "judge" -> {<<AIMessage("draft")>>, <<Prompt, AIMessage("draft")>>}
      [] OTHER -> {<<Prompt>>}

\* States AgentState accepts, on the message lists of node n.  The nodes
\* after decision_making are on the research path, and the feedback counter
\* stops at max_feedback_attempts.
EntryStates(n) ==
    {s \in [requires_research : {TRUE},
            num_feedback_requests : 0..max_feedback_attempts,
            is_good_answer : BOOLEAN,
            messages : EntryLogs(n),
            research_cycles : {0}] : AgentStateValid(s)}

\* Values of the session counter and of the step counter a node is entered with.
CycleStarts == {0, max_cycles - 1, max_cycles}
StepStarts == {1, recursion_limit - 1, recursion_limit}

\* A run of the compiled graph taken at the entry of one of its nodes, on a
\* state AgentState accepts.
InitNode ==
    /\ pc \in Nodes \ {"decision_making"}
    /\ state \in EntryStates(pc)
    /\ current_cycle \in CycleStarts
    /\ steps \in StepStarts
    /\ history = <<Greeting, Prompt>>
    /\ status = "running"
    /\ final_text = 0
    /\ path = <<>>
    /\ executed = <<>>
    /\ runs = 1
    /\ task_pc = "none"
    /\ late = <<>>
    /\ node_out = NoOutput
    /\ stop = NoStop
    /\ _cancelled = FALSE
    /\ tool = NoTool
    /\ direct = NoDirect

Init == InitApp \/ InitNode

Next ==
    \/ UserPrompt
    \/ DecisionNode
    \/ PlanningNode
    \/ AgentNode
    \/ ToolsNode
    \/ JudgeNode
    \/ NodeEntryFails
    \/ LateStep
    \/ Cleanup
    \/ StopButton
    \/ ScriptRerun

Spec == Init /\ [][Next]_vars

(***************************************************************************)
(* Fairness: the engine keeps stepping a run that has a node to run.       *)
(***************************************************************************)
RunStep ==
    \/ DecisionNode
    \/ PlanningNode
    \/ AgentNode
    \/ ToolsNode
    \/ JudgeNode
    \/ NodeEntryFails

FairSpec == Spec /\ WF_vars(RunStep)

(***************************************************************************)
(* agent_tools.py: download-paper and search-papers.  A call is followed   *)
(* one request at a time; what the server answers to each request is the   *)
(* input.  tool.log holds the answers received so far.                     *)
(***************************************************************************)
download_attempts == 3
last_attempt == 2
max_pages == 50
max_chars == 15000
retry_total == 5
top_k_results == 3
status_forcelist == {500, 502, 503, 504}

\* urllib3's Retry also retries these statuses when the response carries a
\* Retry-After header (respect_retry_after_header is left at its default).
RETRY_AFTER_STATUS_CODES == {413, 429, 503}

Min(a, b) == IF a <= b THEN a ELSE b

\* re.match(r'^https?://', url)
Urls == [scheme : {"ftp", "http", "https"}, rest : {"host/paper.pdf"}]
\* UrlSchemeOk accepting any scheme followed by ://
UrlSchemeOk_AnyScheme(url) == url.scheme \in {"ftp", "http", "https"}

UrlSchemeOk(url) == url.scheme \in {"http", "https"}

\* 'pdf' in content_type.lower()
ContentTypes == {"application/pdf", "Application/PDF", "text/html", ""}
IsPdfType(content_type) == content_type \in {"application/pdf", "Application/PDF"}

\* A document: its number of pages and the characters extract_text() finds
\* on each page.
PdfDocs == [pages : {1, max_pages, max_pages + 1},
            chars : {0, 100, 300, max_chars + 1}]
NoPdf == [pages |-> 0, chars |-> 0]

\* What a GET of the url can come to: the request raises, or a response
\* with a status, a content type and a body pdfplumber can or cannot open.
DownloadResponses ==
    {[kind |-> "raises", status |-> 0, content_type |-> "", opens |-> FALSE, pdf |-> NoPdf]}
    \cup {[kind |-> "response", status |-> st, content_type |-> "text/html",
           opens |-> FALSE, pdf |-> NoPdf] : st \in {200, 404, 500}}
    \cup {[kind |-> "response", status |-> 200, content_type |-> ct,
           opens |-> FALSE, pdf |-> NoPdf] : ct \in {"application/pdf", ""}}
    \cup {[kind |-> "response", status |-> 200, content_type |-> ct,
           opens |-> TRUE, pdf |-> d] : ct \in {"application/pdf", "Application/PDF"},
                                        d \in PdfDocs}

NoResult == [status |-> "none"]

\* The dict of the outer except clause.
ErrorResult(error_type, url) ==
    [status |-> "error", error_type |-> error_type, url |-> url]

\* "\n".join of the texts of k pages of c characters each.
JoinedLen(k, c) == IF k = 0 THEN 0 ELSE k * c + (k - 1)

\* result_template once the document is read: content is held by its
\* length.
ExtractPdf(url, pdf) ==
    LET full_text == JoinedLen(Min(pdf.pages, max_pages), pdf.chars) IN
    [status |-> "success",
     url |-> url,
     pages_processed |-> pdf.pages,
     content |-> Min(full_text, max_chars),
     warnings |-> IF full_text > max_chars
                  THEN <<"Texto truncado a 15,000 caracteres">>
                  ELSE <<>>]

\* What one pass through the body of the for loop raises, "none" if it
\* returns.
AttemptRaises(resp) ==
    IF resp.kind = "raises" THEN "MaxRetryError"
    ELSE IF resp.status # 200 THEN "ConnectionError"
    ELSE IF ~IsPdfType(resp.content_type) THEN "ValueError"
    ELSE IF ~resp.opens THEN "PDFSyntaxError"
    ELSE "none"

\* The variables of the workflow, which a tool call leaves alone.
workflow_vars == <<history, current_cycle, pc, state, steps, status, final_text,
              path, executed, runs, task_pc, late, node_out, stop, _cancelled>>

\* download_paper(url) up to the for loop: the scheme of the url is checked
\* before any request.
DownloadStart ==
    /\ tool.name = "download-paper"
    /\ tool.pc = "start"
    /\ tool' = IF UrlSchemeOk(tool.url)
               THEN [tool EXCEPT !.pc = "request"]
               ELSE [tool EXCEPT !.pc = "done",
                                 !.result = ErrorResult("ValueError", tool.url)]
    /\ UNCHANGED <<workflow_vars, direct>>

\* DownloadAttempt sleeping the same 2 seconds after every failure.
DownloadAttempt_FixedDelay ==
    /\ tool.name = "download-paper"
    /\ tool.pc = "request"
    /\ tool.attempt < download_attempts
    /\ \E resp \in DownloadResponses :
         LET e == AttemptRaises(resp)
             t == [tool EXCEPT !.log = Append(tool.log, resp)]
         IN tool' =
              IF e = "none"
              THEN [t EXCEPT !.pc = "done", !.result = ExtractPdf(tool.url, resp.pdf)]
              ELSE IF tool.attempt = last_attempt
              THEN [t EXCEPT !.pc = "done", !.result = ErrorResult(e, tool.url)]
              ELSE [t EXCEPT !.sleeps = Append(tool.sleeps, 2),
                             !.attempt = tool.attempt + 1]
    /\ UNCHANGED <<workflow_vars, direct>>

\* One pass through the for loop: whatever the pass raises is caught by the
\* same except clause, which sleeps and goes round again unless this was
\* the last attempt.
DownloadAttempt ==
    /\ tool.name = "download-paper"
    /\ tool.pc = "request"
    /\ tool.attempt < download_attempts
    /\ \E resp \in DownloadResponses :
         LET e == AttemptRaises(resp)
             t == [tool EXCEPT !.log = Append(tool.log, resp)]
         IN tool' =
              IF e = "none"
              THEN [t EXCEPT !.pc = "done", !.result = ExtractPdf(tool.url, resp.pdf)]
              ELSE IF tool.attempt = last_attempt
              THEN [t EXCEPT !.pc = "done", !.result = ErrorResult(e, tool.url)]
              ELSE [t EXCEPT !.sleeps = Append(tool.sleeps, 2 ^ (tool.attempt + 1)),
                             !.attempt = tool.attempt + 1]
    /\ UNCHANGED <<workflow_vars, direct>>

\* What the CORE API can answer to a search request: the request raises
\* (connection or read error), or a response with a status, with or without
\* a Retry-After header, and the number of results of its JSON body.
SearchResponses ==
    {[kind |-> "raises", status |-> 0, retry_after |-> FALSE, results |-> 0]}
    \cup {[kind |-> "response", status |-> 200, retry_after |-> FALSE, results |-> n] :
            n \in {0, top_k_results + 2}}
    \cup {[kind |-> "response", status |-> st, retry_after |-> ra, results |-> 0] :
            st \in {404, 429, 503}, ra \in BOOLEAN}

\* Retry.is_retry for a GET, with status_forcelist as _execute_api_request
\* sets it; total is the number of retries left.
is_retry(status_code, has_retry_after, total) ==
    \/ status_code \in status_forcelist
    \/ (total # 0 /\ has_retry_after /\ status_code \in RETRY_AFTER_STATUS_CODES)

\* The dicts search() and search_papers() return.
SearchError(error_type) == [status |-> "error", error_type |-> error_type]

SearchSuccess(results) ==
    [status |-> "success", results_count |-> Min(results, top_k_results)]

\* search_papers up to the request: CoreAPIWrapper(...) raises when
\* CORE_API_KEY is not set, and search_papers turns that into a dict.
SearchStart ==
    /\ tool.name = "search-papers"
    /\ tool.pc = "start"
    /\ tool' = IF tool.api_key_set
               THEN [tool EXCEPT !.pc = "request"]
               ELSE [tool EXCEPT !.pc = "done", !.result = SearchError("Critical Error")]
    /\ UNCHANGED <<workflow_vars, direct>>

\* One request of http.request under Retry(total=5): a request that raises
\* or a response is_retry accepts uses up one retry and is sent again;
\* with no retry left MaxRetryError is raised, which _execute_api_request
\* turns into {"error": ...} and search() into an error dict.
SearchAttempt ==
    /\ tool.name = "search-papers"
    /\ tool.pc = "request"
    /\ \E resp \in SearchResponses :
         LET t == [tool EXCEPT !.log = Append(tool.log, resp)] IN
         tool' =
           IF resp.kind = "raises"
              \/ is_retry(resp.status, resp.retry_after, tool.retries_left)
           THEN IF tool.retries_left = 0
                THEN [t EXCEPT !.pc = "done", !.result = SearchError("API Error")]
                ELSE [t EXCEPT !.retries_left = tool.retries_left - 1]
           ELSE IF resp.status = 200
           THEN [t EXCEPT !.pc = "done", !.result = SearchSuccess(resp.results)]
           ELSE [t EXCEPT !.pc = "done", !.result = SearchError("API Error")]
    /\ UNCHANGED <<workflow_vars, direct>>

\* ask_human_feedback(question), called with a script context (ctx) or
\* without one.  typed: the human has entered a response; stored: the key
\* of the question is in st.session_state.
\* With a context and no stored key the function shows the text input,
\* which returns its current value at once, and assigns it to the key of
\* the widget it has just created: the session state refuses the
\* assignment (StreamlitAPIException), and where it lets it through the
\* next line, st.rerun(), stops the script (RerunException).  With a stored
\* key it returns the stored value.  Without a context it returns what
\* input() reads, which blocks until there is a line.
ask_human_feedback ==
    /\ tool.name = "ask-human-feedback"
    /\ tool.pc = "start"
    /\ IF tool.ctx
       THEN IF ~tool.stored
            THEN \E e \in {"StreamlitAPIException", "RerunException"} :
                   tool' = [tool EXCEPT !.pc = "done",
                                        !.result = [status |-> "raised", error_type |-> e]]
            ELSE tool' = [tool EXCEPT !.pc = "done",
                                      !.result = [status |-> "returned",
                                                  value |-> IF tool.typed
                                                            THEN "response" ELSE ""]]
       ELSE /\ tool.typed
            /\ tool' = [tool EXCEPT !.pc = "done",
                                    !.result = [status |-> "returned",
                                                value |-> "response"]]
    /\ UNCHANGED <<workflow_vars, direct>>

\* The human enters a response, in the text input or on the console.
HumanResponds ==
    /\ tool.name = "ask-human-feedback"
    /\ tool.pc = "start"
    /\ ~tool.typed
    /\ tool' = [tool EXCEPT !.typed = TRUE]
    /\ UNCHANGED <<workflow_vars, direct>>

\* The calls followed: download_paper on each url, search_papers with and
\* without the API key in the environment, ask_human_feedback with and
\* without a script context and a stored key.
ToolCalls ==
    {[name |-> "download-paper", pc |-> "start", url |-> u, attempt |-> 0,
      log |-> <<>>, sleeps |-> <<>>, result |-> NoResult] : u \in Urls}
    \cup {[name |-> "search-papers", pc |-> "start", api_key_set |-> k,
           retries_left |-> retry_total, log |-> <<>>, result |-> NoResult] :
            k \in BOOLEAN}
    \cup {[name |-> "ask-human-feedback", pc |-> "start", ctx |-> c, stored |-> k,
           typed |-> FALSE, result |-> NoResult] : c \in BOOLEAN, k \in BOOLEAN}

\* A tool called on its own, outside a run of the graph.
ToolInit ==
    /\ history = <<Greeting>>
    /\ current_cycle = 0
    /\ pc = "idle"
    /\ state = DefaultState(history)
    /\ steps = 0
    /\ status = "none"
    /\ final_text = 0
    /\ path = <<>>
    /\ executed = <<>>
    /\ runs = 0
    /\ task_pc = "none"
    /\ late = <<>>
    /\ node_out = NoOutput
    /\ stop = NoStop
    /\ _cancelled = FALSE
    /\ tool \in ToolCalls
    /\ direct = NoDirect

ToolNext ==
    \/ DownloadStart
    \/ DownloadAttempt
    \/ SearchStart
    \/ SearchAttempt
    \/ ask_human_feedback
    \/ HumanResponds

ToolSpec == ToolInit /\ [][ToolNext]_vars

(***************************************************************************)
(* graph.py and state.py called directly: a router, or                     *)
(* reset_research_state, applied to a state AgentState accepts.            *)
(***************************************************************************)
\* Evaluations of one router on one state.
MaxEvals == 2

\* States AgentState accepts, over three message lists.
ValidStates ==
    {s \in [requires_research : BOOLEAN,
            num_feedback_requests : 0..num_feedback_le,
            is_good_answer : BOOLEAN,
            messages : {<<Prompt>>,
                        <<Prompt, AIMessage("draft")>>,
                        <<Prompt, AIToolCalls(MakeCalls(<<"search-papers">>))>>},
            research_cycles : {0, research_cycles_le}] : AgentStateValid(s)}

\* The lambdas of add_conditional_edges, by the node they follow.
Routers == {"route_after_decision", "route_after_agent", "route_after_judge"}

\* EvalRouter clearing the verdict once it has been read.
EvalRouter_ConsumesVerdict(fn, s) ==
    [value |-> CASE fn = "route_after_decision" -> route_after_decision(s)
                 [] fn = "route_after_agent" -> route_after_agent(s)
                 [] OTHER -> route_after_judge(s),
     state |-> [s EXCEPT !.is_good_answer = FALSE]]

\* One evaluation of a router: what it yields, a stage or "raise", and the
\* state it leaves.  The lambdas read their argument and assign nothing.
EvalRouter(fn, s) ==
    [value |-> CASE fn = "route_after_decision" -> route_after_decision(s)
                 [] fn = "route_after_agent" -> route_after_agent(s)
                 [] OTHER -> route_after_judge(s),
     state |-> s]

\* A router is evaluated on a state.
RouterCall ==
    /\ direct.fn = "none"
    /\ \E fn \in Routers, s \in ValidStates :
         LET e == EvalRouter(fn, s) IN
         direct' = [fn |-> fn, arg |-> s, results |-> <<e.value>>,
                    after |-> e.state, raised |-> FALSE]
    /\ UNCHANGED <<workflow_vars, tool>>

\* The same router is evaluated again on the state the last evaluation left.
RouterAgain ==
    /\ direct.fn \in Routers
    /\ Len(direct.results) < MaxEvals
    /\ LET e == EvalRouter(direct.fn, direct.after) IN
         direct' = [direct EXCEPT !.results = Append(@, e.value),
                                  !.after = e.state]
    /\ UNCHANGED <<workflow_vars, tool>>

\* self.field = value under validate_assignment=True: the validators run
\* on the state with the field replaced, and a rejected value raises.  The
\* model validator runs after the field has been replaced; keeps says
\* whether the replaced field is still on the object once it has raised.
SetAttr(r, field, value, keeps) ==
    IF r.raised THEN r
    ELSE LET new == [r.state EXCEPT ![field] = value] IN
         IF AgentStateValid(new)
         THEN [raised |-> FALSE, state |-> new]
         ELSE [raised |-> TRUE, state |-> IF keeps THEN new ELSE r.state]

\* The three assignments of reset_research_state, in the order of the
\* source; an assignment that raises ends the method.
reset_research_state(s, keeps) ==
    SetAttr(SetAttr(SetAttr([raised |-> FALSE, state |-> s],
                            "requires_research", FALSE, keeps),
                    "num_feedback_requests", 0, keeps),
            "research_cycles", 0, keeps)

\* reset_research_state is called on a state.
ResetCall ==
    /\ direct.fn = "none"
    /\ \E s \in ValidStates, keeps \in BOOLEAN :
         LET r == reset_research_state(s, keeps) IN
         direct' = [fn |-> "reset_research_state", arg |-> s, results |-> <<>>,
                    after |-> r.state, raised |-> r.raised]
    /\ UNCHANGED <<workflow_vars, tool>>

DirectNext ==
    \/ RouterCall
    \/ RouterAgain
    \/ ResetCall

DirectSpec == InitApp /\ [][DirectNext]_vars

(***************************************************************************)
(* Helpers of the properties                                               *)
(***************************************************************************)
IsPrefix(s, t) == Len(s) <= Len(t) /\ SubSeq(t, 1, Len(s)) = s

\* A node body ran in this step.
StageRan == Len(path') > Len(path)

Count(seq, x) == Cardinality({i \in 1..Len(seq) : seq[i] = x})

NoDuplicates(seq) == \A i, j \in 1..Len(seq) : seq[i] = seq[j] => i = j

\* The tool messages of a returned update carry an error / a result.
HasError(msgs) == \E i \in 1..Len(msgs) : msgs[i].content = "error"
HasResult(msgs) == \E i \in 1..Len(msgs) : msgs[i].content = "result"

(***************************************************************************)
(* C1.  Every stage leaves the previous messages as a prefix of the new    *)
(* messages: nothing is removed or replaced and the length never           *)
(* decreases.                                                              *)
(***************************************************************************)
C1_MessagesAppendOnly ==
    [][StageRan => IsPrefix(state.messages, state'.messages)]_vars

(***************************************************************************)
(* C2.  Every run eventually terminates: whenever a node is about to run,  *)
(* execute_research_flow eventually returns.                               *)
(***************************************************************************)
C2_RunTerminates == (pc \in Nodes) ~> (pc = "returned")

\* A run in which Answering asked for tool calls has returned.
C2_Witness ==
    /\ pc = "returned"
    /\ node_out.node = "agent"
    /\ node_out.given.kind = "message"
    /\ node_out.given.message.tool_calls # <<>>

(***************************************************************************)
(* C3.  Judging runs at most max_feedback_attempts + 1 times in a run; at  *)
(* the ceiling it returns is_good_answer = true alone, leaving             *)
(* num_feedback_requests as it was, and the run then ends at done.         *)
(***************************************************************************)
C3_JudgeCeilingEndsRun ==
    /\ Count(path, "judge") <= max_feedback_attempts + 1
    /\ (node_out.node = "judge" /\ ~node_out.raised) =>
         /\ node_out.update = [is_good_answer |-> TRUE]
         /\ pc = "returned"
         /\ status = "completed"

(***************************************************************************)
(* C4.  A batch with one failing and one succeeding call yields two tool   *)
(* messages, one with an error and one with a result, and the run goes on  *)
(* into Answering instead of aborting.                                     *)
(***************************************************************************)
C4_MixedBatchContinues ==
    (/\ node_out.node = "tools"
     /\ ~node_out.raised
     /\ Len(node_out.update.messages) = 2
     /\ HasError(node_out.update.messages)
     /\ HasResult(node_out.update.messages))
    => ~(pc = "returned" /\ status = "error" /\ Last(path) = "tools")

C6_CeilingStopsStages ==
    (status = "ceiling" /\ current_cycle > max_cycles) =>
        (pc = "returned" /\ late = <<>>)

(***************************************************************************)
(* C7.  Every run starts from fresh control state: at the start of a run   *)
(* the plan-cycle counter, the feedback counter and is_good_answer are at  *)
(* their initial values, whatever earlier runs of the session did.         *)
(***************************************************************************)
C7_FreshControlState ==
    (pc = "decision_making" /\ steps = 0) =>
        /\ current_cycle = 0
        /\ state.num_feedback_requests = 0
        /\ ~state.is_good_answer

(***************************************************************************)
(* C8.  When Decision's model output is requires_research = false with a   *)
(* non-empty answer, the run ends at done with that answer as the one new  *)
(* message of the log, and only Decision has run.                          *)
(***************************************************************************)
C8_DirectAnswerCompletes ==
    (/\ node_out.node = "decision_making"
     /\ node_out.given.kind = "output"
     /\ ~node_out.given.raw.requires_research
     /\ node_out.given.raw.answer \notin {None, ""})
    => /\ pc = "returned"
       /\ status = "completed"
       /\ path = <<"decision_making">>
       /\ state.messages = Append(history, AIMessage(node_out.given.raw.answer))

(***************************************************************************)
(* C9.  A research run goes Decision, Planning, Answering, ToolExecution,  *)
(* Answering, Judging and ends at done: once Decision has answered         *)
(* requires_research = true the run is at Planning, and a run that         *)
(* returns after executing its one tool call returns completed.            *)
(***************************************************************************)
C9_ResearchRunCompletes ==
    /\ (/\ node_out.node = "decision_making"
        /\ node_out.given.kind = "output"
        /\ DecisionMakingOutputValid(node_out.given.raw)
        /\ node_out.given.raw.requires_research)
       => (pc = "planning" /\ status = "running")
    /\ (pc = "returned" /\ path # <<>> /\ Last(path) = "tools" /\ Len(executed) = 1)
       => status = "completed"

(***************************************************************************)
(* C10.  When Judging sets is_good_answer = true the run ends at done even *)
(* though requires_research is true: no consistency rule rejects the       *)
(* state.                                                                  *)
(***************************************************************************)
C10_GoodVerdictTerminates ==
    (/\ node_out.node = "judge"
     /\ ~node_out.raised
     /\ node_out.update.is_good_answer
     /\ state.requires_research)
    => (pc = "returned" /\ status = "completed")

(***************************************************************************)
(* C11.  Once cancellation is requested while a run is in progress, at     *)
(* most the stage in flight completes, no further stage is entered, and    *)
(* the run returns the cancelled status.                                   *)
(***************************************************************************)
C11_CancelReturnsCancelled ==
    (stop.phase # "none") =>
        /\ Len(path) <= stop.at + 1
        /\ (pc = "returned") => (status = "cancelled")

(***************************************************************************)
(* C12.  A cancel request made from outside the run with the stop control  *)
(* sets the cancelled flag the loop of that run checks: once the stop      *)
(* control has been handled the flag of the run is set.                    *)
(***************************************************************************)
C12_StopSetsRunFlag ==
    (stop.phase = "handled") => _cancelled

(***************************************************************************)
(* C13.  Every run ends as completed, cancelled or ceiling-exceeded: no    *)
(* failure of a model call or of a tool inside a stage makes               *)
(* execute_research_flow return any other status.                          *)
(***************************************************************************)
C13_ThreeRunStatuses ==
    (pc = "returned" /\ status # "rerun") =>
        status \in {"completed", "cancelled", "ceiling"}

(***************************************************************************)
(* C18.  The router maps every state to its next stage: after Decision,    *)
(* Planning if requires_research else the end; after Answering,            *)
(* ToolExecution if the last message has tool calls else Judging; after    *)
(* Judging, the end if is_good_answer else Planning.                       *)
(***************************************************************************)
C18_RouterMapping ==
    AgentStateValid(state) =>
        /\ route_after_decision(state) =
              (IF state.requires_research THEN "planning" ELSE END)
        /\ route_after_agent(state) =
              (IF Last(state.messages).tool_calls # <<>> THEN "tools" ELSE "judge")
        /\ route_after_judge(state) =
              (IF state.is_good_answer THEN END ELSE "planning")

(***************************************************************************)
(* C19.  When the Decision model output has requires_research = false and  *)
(* an empty or missing answer, Decision yields requires_research = true    *)
(* with no assistant message and the run is at Planning.                   *)
(***************************************************************************)
C19_EmptyAnswerGoesToPlanning ==
    (/\ node_out.node = "decision_making"
     /\ node_out.given.kind = "output"
     /\ ~node_out.given.raw.requires_research
     /\ node_out.given.raw.answer \in {None, ""})
    => /\ ~node_out.raised
       /\ node_out.update.requires_research
       /\ node_out.update.messages = <<>>
       /\ pc = "planning"
       /\ status = "running"

(***************************************************************************)
(* C20.  Any error raised by the model call of Decision is caught inside   *)
(* the stage and mapped to requires_research = true: Decision never aborts *)
(* the run.                                                                *)
(***************************************************************************)
C20_DecisionErrorsContained ==
    (node_out.node = "decision_making" /\ node_out.given.kind = "exception")
    => /\ ~node_out.raised
       /\ node_out.update.requires_research
       /\ status # "error"

(***************************************************************************)
(* C14.  download-paper on a url that answers 404, or any other status     *)
(* that is not transient, makes exactly one request, sleeps for no         *)
(* backoff and returns status = error.                                     *)
(***************************************************************************)
C14_NotFoundNotRetried ==
    (/\ tool.name = "download-paper"
     /\ tool.pc = "done"
     /\ tool.log # <<>>
     /\ \A i \in 1..Len(tool.log) :
          tool.log[i].kind = "response" /\ tool.log[i].status = 404)
    => /\ Len(tool.log) = 1
       /\ tool.sleeps = <<>>
       /\ tool.result.status = "error"

(***************************************************************************)
(* C15.  download-paper whose response has status 200 and a content type   *)
(* that does not indicate a PDF fails after that single request, with no   *)
(* retry and no backoff, and returns status = error.                       *)
(***************************************************************************)
C15_NonPdfFailsFast ==
    (/\ tool.name = "download-paper"
     /\ tool.pc = "done"
     /\ tool.log # <<>>
     /\ \A i \in 1..Len(tool.log) :
          /\ tool.log[i].kind = "response"
          /\ tool.log[i].status = 200
          /\ ~IsPdfType(tool.log[i].content_type))
    => /\ Len(tool.log) = 1
       /\ tool.sleeps = <<>>
       /\ tool.result.status = "error"

(***************************************************************************)
(* C16.  A success result of download-paper whose content omits part of    *)
(* the document, because it has more pages than the page cap or more       *)
(* text than the character cap, carries a truncation warning, and content  *)
(* is never longer than the character cap.                                 *)
(***************************************************************************)
C16_TruncationFlagged ==
    (/\ tool.name = "download-paper"
     /\ tool.pc = "done"
     /\ tool.result.status = "success")
    => LET pdf == Last(tool.log).pdf IN
       /\ tool.result.content <= max_chars
       /\ (/\ pdf.chars > 0
           /\ (pdf.pages > max_pages \/ JoinedLen(pdf.pages, pdf.chars) > max_chars))
            => tool.result.warnings # <<>>

(***************************************************************************)
(* C17.  search-papers sends its request again only after a response whose *)
(* status is in the transient set (429, 500, 502, 503, 504), makes at most *)
(* 5 attempts, returns any other non-200 status at once as an error        *)
(* payload, and returns an error payload when the retries are used up.     *)
(***************************************************************************)
C17_SearchRetryBounded ==
    (tool.name = "search-papers") =>
        /\ (\A i \in 1..Len(tool.log) : tool.log[i].kind = "response")
             => Len(tool.log) <= retry_total
        /\ \A i \in 1..(Len(tool.log) - 1) :
             tool.log[i].kind = "response"
                => tool.log[i].status \in {429, 500, 502, 503, 504}
        /\ (tool.pc = "done" /\ tool.log # <<>> /\ Last(tool.log).status # 200)
             => tool.result.status = "error"

(***************************************************************************)
(* C21.  When the model call of Planning fails, Planning appends one       *)
(* assistant message asking for clarification to the log and the run goes  *)
(* on to Answering; the run is not aborted.                                *)
(***************************************************************************)
C21_PlanningFailureAppendsClarification ==
    [][(/\ StageRan
        /\ Last(path') = "planning"
        /\ node_out'.given.kind = "exception")
       => /\ state'.messages =
               Append(state.messages, AIMessage("Error en planificacion"))
          /\ pc' = "agent"
          /\ status' = "running"]_vars

(***************************************************************************)
(* C22.  When the Judging model output says the answer is not good and     *)
(* carries no feedback, Judging sets is_good_answer = true and the run     *)
(* terminates instead of going back to Planning.                           *)
(***************************************************************************)
C22_MalformedJudgmentTerminates ==
    (/\ node_out.node = "judge"
     /\ node_out.given.kind = "output"
     /\ ~node_out.given.raw.is_good_answer
     /\ node_out.given.raw.feedback \in {None, ""})
    => /\ ~node_out.raised
       /\ node_out.update.is_good_answer
       /\ pc = "returned"
       /\ status = "completed"

(***************************************************************************)
(* C23.  In every state of a run 0 <= num_feedback_requests <=             *)
(* max_feedback_attempts; no stage decreases the counter and no stage      *)
(* other than Judging changes it.                                          *)
(***************************************************************************)
C23_FeedbackCounterBounded ==
    [][/\ state.num_feedback_requests \in 0..max_feedback_attempts
       /\ state'.num_feedback_requests \in 0..max_feedback_attempts
       /\ StageRan =>
            /\ state'.num_feedback_requests >= state.num_feedback_requests
            /\ (state'.num_feedback_requests # state.num_feedback_requests)
                 => Last(path') = "judge"]_vars

\* ToolExecution has run and left the counter at the ceiling.
C23_Witness ==
    /\ node_out.node = "tools"
    /\ ~node_out.raised
    /\ pc = "agent"
    /\ state.num_feedback_requests = max_feedback_attempts

(***************************************************************************)
(* C24.  download-paper makes at most 3 attempts per call, sleeps between  *)
(* consecutive attempts a delay that doubles each time, and after the last *)
(* failed attempt returns a result with status = error.                    *)
(***************************************************************************)
C24_DownloadRetriesBounded ==
    (tool.name = "download-paper") =>
        /\ Len(tool.log) <= 3
        /\ Len(tool.sleeps) = (IF tool.pc = "done" /\ tool.log # <<>>
                               THEN Len(tool.log) - 1 ELSE Len(tool.log))
        /\ \A i \in 1..Len(tool.sleeps) :
             /\ tool.sleeps[i] > 0
             /\ i > 1 => tool.sleeps[i] = 2 * tool.sleeps[i - 1]
        /\ (/\ tool.pc = "done"
            /\ tool.log # <<>>
            /\ ~(/\ Last(tool.log).kind = "response"
                 /\ Last(tool.log).status = 200
                 /\ Last(tool.log).opens))
           => (Len(tool.log) = 3 /\ tool.result.status = "error")

\* Three attempts failed and the call returned an error after two sleeps.
C24_Witness ==
    /\ tool.name = "download-paper"
    /\ tool.pc = "done"
    /\ Len(tool.log) = 3
    /\ Len(tool.sleeps) = 2
    /\ tool.result.status = "error"

(***************************************************************************)
(* C25.  download-paper on a url whose scheme is neither http nor https    *)
(* returns status = error without any request and without any sleep.       *)
(***************************************************************************)
C25_BadSchemeNoRequest ==
    (tool.name = "download-paper" /\ tool.url.scheme \notin {"http", "https"}) =>
        /\ tool.pc # "request"
        /\ tool.log = <<>>
        /\ tool.sleeps = <<>>
        /\ (tool.pc = "done") => (tool.result.status = "error")

\* download-paper has returned for an ftp url.
C25_Witness ==
    /\ tool.name = "download-paper"
    /\ tool.url.scheme = "ftp"
    /\ tool.pc = "done"
    /\ tool.result.status = "error"

(***************************************************************************)
(* C26.  The stages of a run follow only the transitions Decision to       *)
(* Planning, Planning to Answering, Answering to ToolExecution or Judging, *)
(* ToolExecution to Answering and Judging to Planning; Decision runs       *)
(* first and once; and one stage at most is running on the state of a run. *)
(***************************************************************************)
C26_StageSequence ==
    LET Allowed == [decision_making |-> {"planning"},
                    planning |-> {"agent"},
                    agent |-> {"tools", "judge"},
                    tools |-> {"agent"},
                    judge |-> {"planning"}]
        Follows(seq) == \A i \in 1..(Len(seq) - 1) : seq[i + 1] \in Allowed[seq[i]]
    IN /\ Follows(path)
       /\ Follows(late)
       /\ (pc \in Nodes /\ path # <<>>) => pc \in Allowed[Last(path)]
       /\ (task_pc \in Nodes /\ late # <<>>) => task_pc \in Allowed[Last(late)]
       /\ \A i \in 1..Len(path) : path[i] = "decision_making" => i = 1
       /\ (pc = "decision_making") => (path = <<>>)
       /\ ~(pc \in Nodes /\ task_pc \in Nodes)

\* Planning and then Answering have run.
C26_Witness ==
    /\ path = <<"planning", "agent">>
    /\ pc = "returned"

(***************************************************************************)
(* C27.  Every execution of Judging below the feedback ceiling increments  *)
(* num_feedback_requests by exactly one, whatever the evaluation returns.  *)
(***************************************************************************)
C27_JudgingIncrementsCounter ==
    [][(/\ StageRan
        /\ Last(path') = "judge"
        /\ state.num_feedback_requests < max_feedback_attempts)
       => state'.num_feedback_requests = state.num_feedback_requests + 1]_vars

C29_RequiresResearchFrame ==
    [][(StageRan /\ Last(path') # "decision_making")
       => state'.requires_research = state.requires_research]_vars

\* ToolExecution has run on a state that requires research.
C29_Witness ==
    /\ path # <<>>
    /\ Last(path) = "tools"
    /\ ~node_out.raised
    /\ state.requires_research
    /\ Last(state.messages).role = "tool"

(***************************************************************************)
(* C30.  The counter of the plan-cycle ceiling goes up by exactly one each *)
(* time Planning is entered, and no other event changes it, the writing of *)
(* tool messages included.                                                 *)
(***************************************************************************)
C30_CycleCounter ==
    [][IF /\ pc = "planning"
          /\ \/ Len(path') > Len(path)
             \/ (task_pc = "none" /\ task_pc' = "planning")
       THEN current_cycle' = current_cycle + 1
       ELSE current_cycle' = current_cycle]_vars

\* Planning has been entered once in a session that had counted no cycle.
C30_Witness ==
    /\ path # <<>>
    /\ Last(path) = "planning"
    /\ current_cycle = 1

C32_CeilingOnlyOnPlanCycles ==
    (status = "ceiling") => current_cycle > max_cycles

(***************************************************************************)
(* C33.  A run that starts with the plan-cycle counter at 0 enters         *)
(* Planning at most max_feedback_attempts + 1 times and never ends with    *)
(* the ceiling status.  The run is one followed from its first or second   *)
(* superstep, and the counter was at 0 when current_cycle counts just the  *)
(* entries of the run.                                                     *)
(***************************************************************************)
C33_PlanningEntriesBounded ==
    (steps <= Len(path) + 1 /\ current_cycle = Count(path, "planning")) =>
        /\ Count(path, "planning") <= max_feedback_attempts + 1
        /\ status # "ceiling"

C35_FailedRunAddsNoMessage ==
    (pc = "returned" /\ status \in {"cancelled", "ceiling", "error"}) =>
        Last(history) = Prompt

(***************************************************************************)
(* C36.  In every state of every run a positive num_feedback_requests      *)
(* comes with requires_research = true: no update of a stage breaks the    *)
(* consistency rule on the feedback counter.                               *)
(***************************************************************************)
C36_FeedbackImpliesResearch ==
    state.num_feedback_requests > 0 => state.requires_research

\* Planning has written its update onto a state with a positive counter.
C36_Witness ==
    /\ node_out.node = "planning"
    /\ Last(path) = "planning"
    /\ state.num_feedback_requests = max_feedback_attempts
    /\ state.messages = <<AIMessage("plan")>>

(***************************************************************************)
(* C37.  With a script context, a call of ask-human-feedback does not end  *)
(* before the human has supplied a response, and it ends by returning      *)
(* that response.                                                          *)
(***************************************************************************)
C37_FeedbackWaitsForResponse ==
    (tool.name = "ask-human-feedback" /\ tool.ctx /\ tool.pc = "done") =>
        /\ tool.typed
        /\ tool.result.status = "returned"
        /\ tool.result.value = "response"

(***************************************************************************)
(* C38.  reset_research_state succeeds on every state AgentState accepts:  *)
(* it leaves requires_research false, num_feedback_requests and            *)
(* research_cycles at 0, and messages and is_good_answer as they were.     *)
(***************************************************************************)
C38_ResetSucceeds ==
    (direct.fn = "reset_research_state") =>
        /\ ~direct.raised
        /\ ~direct.after.requires_research
        /\ direct.after.num_feedback_requests = 0
        /\ direct.after.research_cycles = 0
        /\ direct.after.messages = direct.arg.messages
        /\ direct.after.is_good_answer = direct.arg.is_good_answer

====
